---------------------------- MODULE Spec2Model ----------------------------
(***************************************************************************)
(* spectacle: webhook intake (HookHandler.ServeHTTP), the hand-off of      *)
(* BuildJobs through the global channel `worker` (queueWork) and the       *)
(* serialized build loop (jobRunner), from src/unnamed/part_000; and the   *)
(* older handler of src/main.go, which clones inside the request.          *)
(*                                                                         *)
(* Strings that the code only compares for equality are TLA+ strings.      *)
(* Strings that the code inspects character by character (the signature    *)
(* header, the ref and the branch) are sequences of one-character strings. *)
(***************************************************************************)
EXTENDS Integers, Sequences, FiniteSets, TLC

(***************************************************************************)
(* Bounds of the model.                                                    *)
(***************************************************************************)
\* number of handler goroutines that may be inside ServeHTTP at once
MaxHandlers == 2
\* number of BuildJobs handed to queueWork in one behaviour (in the
\* synchronous handler: of calls of git.Clone)
MaxJobs == 2

(***************************************************************************)
(* Program constants.                                                      *)
(***************************************************************************)
\* len(r.Header.Get("X-Hub-Signature")) < 45
MinSignatureLen == 45
\* r.Header.Get("X-Hub-Signature")[5:]
SignaturePrefixLen == 5
\* actual := make([]byte, 20)
MacLen == 20
StatusAccepted == 202
StatusBadRequest == 400
StatusForbidden == 403
StatusNotFound == 404
StatusMethodNotAllowed == 405
\* Credential{Uid: 1001, Gid: 1001}
BuildUid == 1001
BuildGid == 1001

None == "none"

(***************************************************************************)
(* encoding/hex as the handler uses it.                                    *)
(***************************************************************************)
Hextable == <<"0", "1", "2", "3", "4", "5", "6", "7",
              "8", "9", "a", "b", "c", "d", "e", "f">>

UpperHex == <<"A", "B", "C", "D", "E", "F">>

\* hex.fromHexChar: the value of a hexadecimal digit, 255 for any other char
fromHexChar(c) ==
    IF \E k \in 1..16 : Hextable[k] = c
    THEN (CHOOSE k \in 1..16 : Hextable[k] = c) - 1
    ELSE IF \E k \in 1..6 : UpperHex[k] = c
         THEN (CHOOSE k \in 1..6 : UpperHex[k] = c) + 9
         ELSE 255

\* hex.EncodeToString, as the sender of the webhook formats the digest
EncodeToString(bytes) ==
    [k \in 1..(2 * Len(bytes)) |->
        IF k % 2 = 1 THEN Hextable[(bytes[(k + 1) \div 2] \div 16) + 1]
                     ELSE Hextable[(bytes[k \div 2] % 16) + 1]]

\* hex.Decode(dst, src) from pair number i on: decoding stops at the first
\* char that is no hex digit (the error is dropped by the caller), and the
\* store dst[i] with i >= len(dst) is an index-out-of-range panic.
RECURSIVE DecodeFrom(_, _, _)
DecodeFrom(dst, src, i) ==
    IF 2 * i + 2 > Len(src)
    THEN [dst |-> dst, panic |-> FALSE]
    ELSE LET a == fromHexChar(src[2 * i + 1])
             b == fromHexChar(src[2 * i + 2])
         IN  IF a > 15 \/ b > 15
             THEN [dst |-> dst, panic |-> FALSE]
             ELSE IF i + 1 > Len(dst)
                  THEN [dst |-> dst, panic |-> TRUE]
                  ELSE DecodeFrom([dst EXCEPT ![i + 1] = a * 16 + b], src, i + 1)

\* actual := make([]byte, 20); hex.Decode(actual, []byte(header[5:]))
Decode(header) ==
    DecodeFrom([k \in 1..MacLen |-> 0],
               SubSeq(header, SignaturePrefixLen + 1, Len(header)), 0)


(***************************************************************************)
(* The registry (HookHandler.Repos), loaded once by main.                  *)
(***************************************************************************)
RepoA == <<"o", "/", "a">>
RepoB == <<"o", "/", "b">>
RepoC == <<"o", "/", "c">>

\* handler.Repos after main has read spectacle.ini: RepoC is not configured
Repos ==
    << [Name |-> RepoA, Secret |-> "s1", Branch |-> <<"m">>],
       [Name |-> RepoB, Secret |-> "s2", Branch |-> <<"h">>] >>

(***************************************************************************)
(* Request bodies.  A raw body is the JSON text as sent: the model keeps   *)
(* whether the text is well-formed JSON and the two fields the handler     *)
(* reads from it.                                                          *)
(***************************************************************************)
RefSeq == << <<"h", "m">>, <<"m", "h">> >>
NameSeq == <<RepoA, RepoB, RepoC>>
SecretSeq == <<"s1", "s2">>

IndexOf(seq, x) == CHOOSE k \in 1..Len(seq) : seq[k] = x

\* json.Unmarshal(raw, &payload)
Unmarshal(raw) ==
    IF raw.wellformed
    THEN [err |-> FALSE,
          payload |-> [Ref |-> raw.ref,
                       Repository |-> [FullName |-> raw.full_name]]]
    ELSE [err |-> TRUE,
          payload |-> [Ref |-> <<>>, Repository |-> [FullName |-> <<>>]]]

\* hmac.New(sha1.New, secret); mac.Write(raw); mac.Sum(nil): a 20-byte
\* digest.  HMAC-SHA1 is modelled as a function that is injective on the
\* (secret, body) pairs of the model: byte 1 identifies the secret, byte 2
\* the body, the other bytes mix both.
Sum(secret, raw) ==
    LET s == IndexOf(SecretSeq, secret)
        b == (IF raw.wellformed THEN 1 ELSE 0)
             + 2 * IndexOf(RefSeq, raw.ref)
             + 8 * IndexOf(NameSeq, raw.full_name)
    IN  [k \in 1..MacLen |->
            IF k = 1 THEN s ELSE IF k = 2 THEN b ELSE (s * b + 11 * k) % 256]

\* hmac.Equal(sum, actual)
Equal(x, y) == Len(x) = Len(y) /\ \A k \in 1..Len(x) : x[k] = y[k]

\* strings.HasPrefix in place of strings.HasSuffix
HasPrefix(s, prefix) ==
    /\ Len(s) >= Len(prefix)
    /\ SubSeq(s, 1, Len(prefix)) = prefix

\* strings.HasSuffix(s, suffix)
HasSuffix(s, suffix) ==
    /\ Len(s) >= Len(suffix)
    /\ SubSeq(s, Len(s) - Len(suffix) + 1, Len(s)) = suffix

(***************************************************************************)
(* HookHandler.ServeHTTP up to the switch on the event kind, as a          *)
(* function of the request.                                                *)
(***************************************************************************)
\* the method checked before the path
PreconditionsMethodFirst(req) ==
    IF req.method # "POST" THEN StatusMethodNotAllowed
    ELSE IF req.path # "/hook" THEN StatusNotFound
    ELSE IF req.ctype # "application/json" THEN StatusBadRequest
    ELSE IF Len(req.sig) < MinSignatureLen THEN StatusBadRequest
    ELSE 0

\* lines 137-149: the status of the first failing precondition, 0 if none
Preconditions(req) ==
    IF req.path # "/hook" THEN StatusNotFound
    ELSE IF req.method # "POST" THEN StatusMethodNotAllowed
    ELSE IF req.ctype # "application/json" THEN StatusBadRequest
    ELSE IF Len(req.sig) < MinSignatureLen THEN StatusBadRequest
    ELSE 0

\* a lookup that falls back to the first repo when no name matches
FindConfigOrFirst(repos, fullName) ==
    IF \E k \in 1..Len(repos) : repos[k].Name = fullName
    THEN CHOOSE k \in 1..Len(repos) : repos[k].Name = fullName
    ELSE 1

\* lines 161-168: index of the first repo whose Name is the payload's
\* repository.full_name, 0 when there is none
FindConfig(repos, fullName) ==
    IF \E k \in 1..Len(repos) : repos[k].Name = fullName
    THEN CHOOSE k \in 1..Len(repos) :
            /\ repos[k].Name = fullName
            /\ \A l \in 1..(k - 1) : repos[l].Name # fullName
    ELSE 0

\* lines 176-184: "panic" when hex.Decode overruns `actual`
VerifySignature(secret, raw, header) ==
    LET d == Decode(header)
    IN  IF d.panic THEN "panic"
        ELSE IF Equal(Sum(secret, raw), d.dst) THEN "pass"
        ELSE "fail"

NoJob == [Name |-> <<>>, Url |-> <<>>, Branch |-> <<>>]

\* a BuildJob whose Url lacks the host
BuildJobBareUrl(repo) ==
    [Name |-> repo.Name, Url |-> repo.Name, Branch |-> repo.Branch]

\* lines 199-203: the BuildJob literal
NewBuildJob(repo) ==
    [Name |-> repo.Name,
     Url |-> <<"https://github.com/">> \o repo.Name,
     Branch |-> repo.Branch]

\* an ignored ref answered as a bad request
DispatchRejectingIgnored(event, payload, repo) ==
    IF event = "watch"
    THEN [outcome |-> "to be implemented", queue |-> FALSE, status |-> 0]
    ELSE IF event = "push"
    THEN IF ~HasSuffix(payload.Ref, repo.Branch)
         THEN [outcome |-> "ignored ref", queue |-> FALSE, status |-> StatusBadRequest]
         ELSE [outcome |-> "queued build", queue |-> TRUE, status |-> 0]
    ELSE [outcome |-> "unhandled", queue |-> FALSE, status |-> 0]

\* lines 187-206: the switch on X-GitHub-Event.  `status` is the status an
\* arm answers with before returning, 0 when the arm falls through to
\* w.WriteHeader(http.StatusAccepted).
Dispatch(event, payload, repo) ==
    IF event = "watch"
    THEN [outcome |-> "to be implemented", queue |-> FALSE, status |-> 0]
    ELSE IF event = "push"
    THEN IF ~HasSuffix(payload.Ref, repo.Branch)
         THEN [outcome |-> "ignored ref", queue |-> FALSE, status |-> 0]
         ELSE [outcome |-> "queued build", queue |-> TRUE, status |-> 0]
    ELSE [outcome |-> "unhandled", queue |-> FALSE, status |-> 0]

Verdict(status, parsed, lookedUp, verify, outcome, queue, job) ==
    [status |-> status, parsed |-> parsed, lookedUp |-> lookedUp,
     verify |-> verify, outcome |-> outcome, queue |-> queue, job |-> job]

\* lines 137-206: what the handler does with a request.  parsed, lookedUp
\* and verify record which stages ran; status 0 with outcome "panic" is a
\* handler that died in hex.Decode (net/http answers nothing and drops the
\* connection); status 0 otherwise is a handler on its way to line 208.
Route(req) ==
    LET pre == Preconditions(req)
    IN  IF pre # 0
        THEN Verdict(pre, FALSE, FALSE, "none", None, FALSE, NoJob)
        ELSE
        LET u == Unmarshal(req.body)
        IN  IF u.err
            THEN Verdict(StatusBadRequest, TRUE, FALSE, "none", None, FALSE, NoJob)
            ELSE
            LET k == FindConfig(Repos, u.payload.Repository.FullName)
            IN  IF k = 0
                THEN Verdict(StatusBadRequest, TRUE, TRUE, "none", None, FALSE, NoJob)
                ELSE
                LET repo == Repos[k]
                    v == VerifySignature(repo.Secret, req.body, req.sig)
                IN  IF v = "panic"
                    THEN Verdict(0, TRUE, TRUE, v, "panic", FALSE, NoJob)
                    ELSE IF v = "fail"
                    THEN Verdict(StatusForbidden, TRUE, TRUE, v, None, FALSE, NoJob)
                    ELSE
                    LET d == Dispatch(req.event, u.payload, repo)
                    IN  Verdict(d.status, TRUE, TRUE, v, d.outcome, d.queue,
                                IF d.queue THEN NewBuildJob(repo) ELSE NoJob)

(***************************************************************************)
(* Requests.                                                               *)
(***************************************************************************)
Prefix == <<"s", "h", "a", "1", "=">>

Bodies ==
    [wellformed : {TRUE}, ref : {RefSeq[k] : k \in 1..Len(RefSeq)},
     full_name : {NameSeq[k] : k \in 1..Len(NameSeq)}]
    \cup {[wellformed |-> FALSE, ref |-> RefSeq[1], full_name |-> RepoA]}

\* the body with one part of it altered after signing
Tamper(raw) ==
    [raw EXCEPT !.ref = IF raw.ref = RefSeq[1] THEN RefSeq[2] ELSE RefSeq[1]]

\* the header a sender holding `secret` computes for the body `signed`
Signature(secret, signed) == Prefix \o EncodeToString(Sum(secret, signed))

\* signature headers sent along with the body raw
SignaturesFor(raw) ==
    LET exact == {Signature(s, b) : s \in {"s1", "s2"}, b \in {raw, Tamper(raw)}}
    IN  exact
        \cup {x \o t : x \in exact, t \in {<<"z", "z">>, <<"0", "0">>, <<"0">>}}
        \cup {Prefix \o <<"z">> \o Tail(EncodeToString(Sum("s1", raw)))}
        \cup {SubSeq(Signature("s1", raw), 1, MinSignatureLen - 1), <<>>}

Events == {"push", "watch", "ping"}

BaseBody == [wellformed |-> TRUE, ref |-> RefSeq[1], full_name |-> RepoA]

\* requests that differ in what the preconditions look at
PreconditionRequests ==
    {[path |-> p, method |-> m, ctype |-> c, sig |-> s, event |-> "push",
      body |-> BaseBody] :
        p \in {"/hook", "/"}, m \in {"POST", "GET"},
        c \in {"application/json", "text/plain"},
        s \in {Signature("s1", BaseBody),
               SubSeq(Signature("s1", BaseBody), 1, MinSignatureLen - 1)}}

\* requests to POST /hook that differ in body, signature and event kind
HookRequests ==
    UNION {{[path |-> "/hook", method |-> "POST", ctype |-> "application/json",
             sig |-> s, event |-> e, body |-> b] :
                s \in SignaturesFor(b), e \in Events} : b \in Bodies}

Requests == PreconditionRequests \cup HookRequests

\* the header of a sender who signed `signed` and sends `raw`
Push(name, ref, secret, signedRef) ==
    [path |-> "/hook", method |-> "POST", ctype |-> "application/json",
     sig |-> Signature(secret, [wellformed |-> TRUE, ref |-> signedRef,
                                full_name |-> name]),
     event |-> "push",
     body |-> [wellformed |-> TRUE, ref |-> ref, full_name |-> name]]

\* one request of each kind, for the behaviours with many requests
CoreRequests ==
    { Push(RepoA, RefSeq[1], "s1", RefSeq[1]),
      Push(RepoB, RefSeq[2], "s2", RefSeq[2]),
      Push(RepoA, RefSeq[2], "s1", RefSeq[2]),
      [Push(RepoA, RefSeq[1], "s1", RefSeq[1]) EXCEPT !.event = "watch"],
      [Push(RepoB, RefSeq[2], "s2", RefSeq[2]) EXCEPT !.event = "ping"],
      Push(RepoA, RefSeq[1], "s1", RefSeq[2]),
      Push(RepoC, RefSeq[1], "s1", RefSeq[1]) }

\* Route, tabulated once over the requests of the model
Routed == [req \in Requests |-> Route(req)] @@ <<>>


(***************************************************************************)
(* jobRunner's paths.                                                      *)
(***************************************************************************)
\* strings.Replace(job.Name, "/", "-", -1)
Replace(name) == [k \in 1..Len(name) |-> IF name[k] = "/" THEN "-" ELSE name[k]]

\* tmpDir := "/tmp/spectacle-" + strings.Replace(job.Name, "/", "-", -1)
TmpDir(name) == <<"/tmp/spectacle-">> \o Replace(name)

TmpDirs == {TmpDir(Repos[k].Name) : k \in 1..Len(Repos)}

\* buildPath := tmpDir + "/src/github.com/" + job.Name
BuildPath(name) == TmpDir(name) \o <<"/src/github.com/">> \o name

(***************************************************************************)
(* The subprocesses of jobRunner.  An exec.Cmd whose Env is nil runs with  *)
(* the environment of the process that starts it, and one whose            *)
(* SysProcAttr.Credential is nil runs under that process's identity.  A    *)
(* pointer or slice that may be nil is a set with at most one element.     *)
(***************************************************************************)
Nil == {}

\* os.Environ() of the service, which runs as root to be able to setuid
Environ == << <<"HOME=/root">>,
              <<"PATH=/usr/local/sbin:/usr/local/bin:/usr/sbin:/usr/bin:/sbin:/bin">>,
              <<"USER=root">> >>

\* the service runs as root: it sets the uid of its children
ServiceIdentity == [Uid |-> 0, Gid |-> 0]

\* lines 78-84: gitCmd
gitCmd(job) ==
    [Path |-> "git",
     Args |-> <<"clone", job.Url, BuildPath(job.Name)>>,
     Credential |-> {[Uid |-> BuildUid, Gid |-> BuildGid]},
     Dir |-> <<>>,
     Env |-> Nil]

\* a build command that sets no credential
buildCmdNoCredential(job) ==
    [Path |-> "sh",
     Args |-> <<"spectacle.sh">>,
     Credential |-> Nil,
     Dir |-> BuildPath(job.Name),
     Env |-> {<< <<"HOME=/home/spectacle">>,
                 <<"GOPATH=">> \o TmpDir(job.Name),
                 <<"PATH=/usr/local/sbin:/usr/local/bin:/usr/bin">> >>}]

\* lines 95-107: buildCmd
buildCmd(job) ==
    [Path |-> "sh",
     Args |-> <<"spectacle.sh">>,
     Credential |-> {[Uid |-> BuildUid, Gid |-> BuildGid]},
     Dir |-> BuildPath(job.Name),
     Env |-> {<< <<"HOME=/home/spectacle">>,
                 <<"GOPATH=">> \o TmpDir(job.Name),
                 <<"PATH=/usr/local/sbin:/usr/local/bin:/usr/bin">> >>}]

\* lines 85 and 108: cmd.Run() starts this process
Process(cmd) ==
    [path |-> cmd.Path,
     identity |-> IF cmd.Credential = Nil THEN ServiceIdentity
                  ELSE CHOOSE c \in cmd.Credential : TRUE,
     dir |-> cmd.Dir,
     inherits |-> cmd.Env = Nil,
     env |-> IF cmd.Env = Nil THEN Environ ELSE CHOOSE e \in cmd.Env : TRUE]

(***************************************************************************)
(* State.                                                                  *)
(***************************************************************************)
VARIABLES
    worker,     \* the global `worker`: "nil" until jobRunner makes the channel
    wpc,        \* where the jobRunner goroutine stands
    cur,        \* the job jobRunner holds (index into jobs), 0 when none
    step,       \* what the steps of the current job returned
    attempt,    \* the closure's run for the current job: what the dropped
                \* errors were, whether the clone started on a path that
                \* held files, the subprocesses started, in order
    jobs,       \* the BuildJobs passed to queueWork, in the order of the calls
    spawned,    \* queueWork goroutines that have not yet reached `worker <- job`
    stuck,      \* queueWork goroutines blocked for ever on a nil channel
    sendq,      \* queueWork goroutines blocked on the channel, in arrival order
    dequeued,   \* the jobs jobRunner received, in the order it received them
    running,    \* jobs between `job := <-worker` and their final log line
    buildLog,   \* the final log lines of jobRunner
    ws,         \* per tmpDir: whether the directory exists, and the jobs
                \* whose clone or script left files in it
    h,          \* handlers on their way to line 208, counted by the job
                \* they queued (0: they queued none)
    last,       \* SpecRoute: the request under test, and what ServeHTTP did
    resp        \* the response line 208 wrote last

vars == <<worker, wpc, cur, step, attempt, jobs, spawned, stuck, sendq, dequeued,
          running, buildLog, ws, h, last, resp>>

NoStep == [remove |-> "none", clone |-> "none", script |-> "none",
           exit |-> "none", err |-> FALSE]

NoAttempt == [mkdir |-> "none", chown |-> "none", dirty |-> FALSE,
              procs |-> <<>>]

NoTree == [exists |-> FALSE, left |-> {}]

NoRequest == [path |-> "", method |-> "", ctype |-> "", sig |-> <<>>,
              event |-> "",
              body |-> [wellformed |-> FALSE, ref |-> <<>>, full_name |-> <<>>]]

NoLast == [req |-> NoRequest, served |-> FALSE, id |-> 0,
           v |-> Verdict(0, FALSE, FALSE, "none", None, FALSE, NoJob)]

NoResp == [status |-> 0, job |-> 0, finished |-> FALSE]

\* main, up to `go jobRunner()` and ListenAndServe
Init ==
    /\ worker = "nil"
    /\ wpc = "start"
    /\ cur = 0
    /\ step = NoStep
    /\ attempt = NoAttempt
    /\ jobs = <<>>
    /\ spawned = {}
    /\ stuck = {}
    /\ sendq = <<>>
    /\ dequeued = <<>>
    /\ running = {}
    /\ buildLog = <<>>
    /\ ws = [d \in TmpDirs |-> NoTree]
    /\ h = [j \in 0..MaxJobs |-> 0]
    /\ last = NoLast
    /\ resp = NoResp

(***************************************************************************)
(* The handler goroutines.                                                 *)
(***************************************************************************)
RECURSIVE SumTo(_, _)
SumTo(f, n) == IF n < 0 THEN 0 ELSE f[n] + SumTo(f, n - 1)

\* handler goroutines that stand between the switch and line 208
InFlight == SumTo(h, MaxJobs)

\* the jobs jobRunner has received so far
Received == {dequeued[k] : k \in 1..Len(dequeued)}

\* lines 44-48: queueWork(job) starts a goroutine that will send the job:
\* the job joins jobs, its goroutine joins spawned
queueWork(job, js, sp) ==
    [jobs |-> Append(js, job), spawned |-> sp \cup {Len(js) + 1}]

\* the synchronous send: the caller has control back once jobRunner has the job
ReturnedWhenReceived(id) == id \in Received

\* lines 44-48: the caller of queueWork for job id has control back; the
\* `go` statement returns at once, whatever the channel and jobRunner do
Returned(id) == TRUE

\* lines 128-206 for request req: the verdict v, and the job id it queues
Handle(req, v, id) ==
    /\ v.queue => Len(jobs) < MaxJobs
    /\ IF v.queue
       THEN /\ jobs' = queueWork(v.job, jobs, spawned).jobs
            /\ spawned' = queueWork(v.job, jobs, spawned).spawned
       ELSE UNCHANGED <<jobs, spawned>>
    /\ IF v.status = 0 /\ v.verify = "pass"
       THEN InFlight < MaxHandlers /\ h' = [h EXCEPT ![id] = @ + 1]
       ELSE UNCHANGED h
    /\ UNCHANGED <<worker, wpc, cur, step, attempt, stuck, sendq, dequeued,
                   running, buildLog, ws, resp>>

\* HookHandler.ServeHTTP, lines 128-206, for request req
ServeHTTP(req) ==
    /\ Handle(req, Routed[req], IF Routed[req].queue THEN Len(jobs) + 1 ELSE 0)
    /\ UNCHANGED last

\* the final log line of job id has been written
Finished(id) == \E k \in 1..Len(buildLog) : buildLog[k].job = id

\* line 208: w.WriteHeader(http.StatusAccepted) in a handler that queued
\* job id (0: none), then the handler returns
WriteHeader(id) ==
    /\ h[id] > 0
    /\ id # 0 => Returned(id)
    /\ resp' = [status |-> StatusAccepted, job |-> id,
                finished |-> id # 0 /\ Finished(id)]
    /\ h' = [h EXCEPT ![id] = @ - 1]
    /\ UNCHANGED <<worker, wpc, cur, step, attempt, jobs, spawned, stuck, sendq,
                   dequeued, running, buildLog, ws, last>>

(***************************************************************************)
(* The goroutines started by queueWork.                                    *)
(***************************************************************************)
\* line 46: `worker <- job`.  The goroutine reads the global: a send on a
\* nil channel blocks for ever, a send on the channel waits in the
\* channel's queue of senders until jobRunner receives.
Send(id) ==
    /\ id \in spawned
    /\ spawned' = spawned \ {id}
    /\ IF worker = "nil"
       THEN stuck' = stuck \cup {id} /\ UNCHANGED sendq
       ELSE sendq' = Append(sendq, id) /\ UNCHANGED stuck
    /\ UNCHANGED <<worker, wpc, cur, step, attempt, jobs, dequeued, running,
                   buildLog, ws, h, last, resp>>

(***************************************************************************)
(* The jobRunner goroutine.                                                *)
(***************************************************************************)
\* line 51: worker = make(chan BuildJob)
MakeChannel ==
    /\ wpc = "start"
    /\ worker' = "chan"
    /\ wpc' = "recv"
    /\ UNCHANGED <<cur, step, attempt, jobs, spawned, stuck, sendq, dequeued,
                   running, buildLog, ws, h, last, resp>>

\* a receive that does not wait for the build in progress to end
CanReceiveWhileBuilding == wpc # "start"

\* jobRunner may receive: it stands at line 54 and holds no job
CanReceive == wpc = "recv"

\* lines 54-57: job := <-worker
Receive ==
    /\ CanReceive
    /\ sendq # <<>>
    /\ cur' = Head(sendq)
    /\ sendq' = Tail(sendq)
    /\ dequeued' = Append(dequeued, Head(sendq))
    /\ running' = running \cup {Head(sendq)}
    /\ step' = NoStep
    /\ wpc' = "prepare"
    /\ UNCHANGED <<worker, attempt, jobs, spawned, stuck, buildLog, ws, h, last, resp>>

\* a preparation that does not remove what is there
PreparedKeeping(tree, mkdir) ==
    [exists |-> tree.exists \/ mkdir = "ok", left |-> tree.left]

\* lines 63-69: the tree at tmpDir after a RemoveAll that did not fail (or
\* was not needed) and os.MkdirAll(buildPath)
Prepared(tree, mkdir) == [exists |-> mkdir = "ok", left |-> {}]

\* lines 61-75: os.Stat(tmpDir) and os.RemoveAll, whose error ends the job;
\* os.MkdirAll and filepath.Walk with os.Chown, whose errors are dropped
\* (Walk on a root that does not exist hands the error to the callback)
Prepare ==
    /\ wpc = "prepare"
    /\ LET d == TmpDir(jobs[cur].Name)
       IN  \/ /\ ws[d].exists
              /\ step' = [step EXCEPT !.remove = "err", !.err = TRUE]
              /\ wpc' = "log"
              /\ UNCHANGED <<ws, attempt>>
           \/ \E o \in {<<"ok", "ok">>, <<"ok", "err">>, <<"err", "err">>} :
              /\ step' = [step EXCEPT
                            !.remove = IF ws[d].exists THEN "ok" ELSE "none"]
              /\ attempt' = [attempt EXCEPT !.mkdir = o[1], !.chown = o[2]]
              /\ ws' = [ws EXCEPT ![d] = Prepared(ws[d], o[1])]
              /\ wpc' = "clone"
    /\ UNCHANGED <<worker, cur, jobs, spawned, stuck, sendq, dequeued,
                   running, buildLog, h, last, resp>>

\* lines 78-88: gitCmd.Run(), git clone job.Url buildPath
Clone ==
    /\ wpc = "clone"
    /\ attempt' = [attempt EXCEPT
                      !.procs = Append(@, Process(gitCmd(jobs[cur]))),
                      !.dirty = ws[TmpDir(jobs[cur].Name)].left # {}]
    /\ LET d == TmpDir(jobs[cur].Name)
       IN  \/ /\ step' = [step EXCEPT !.clone = "ok"]
              /\ ws' = [ws EXCEPT ![d] = [exists |-> TRUE,
                                          left |-> @.left \cup {cur}]]
              /\ wpc' = "stat"
           \/ /\ step' = [step EXCEPT !.clone = "fail", !.err = TRUE]
              /\ ws' = [ws EXCEPT ![d].left =
                            IF ws[d].exists THEN @ \cup {cur} ELSE @]
              /\ wpc' = "log"
    /\ UNCHANGED <<worker, cur, jobs, spawned, stuck, sendq, dequeued,
                   running, buildLog, h, last, resp>>

\* a check that goes on to the script whatever os.Stat returned
AfterStatAlwaysRun(script) == "run"

\* lines 91-94: only an error that os.IsNotExist recognizes ends the job
AfterStat(script) == IF script = "absent" THEN "log" ELSE "run"

\* lines 91-94: os.Stat(buildPath + "/spectacle.sh"): the file is there, is
\* not there, or cannot be examined (a symbolic link that loops)
StatScript ==
    /\ wpc = "stat"
    /\ \E o \in {"present", "absent", "unreadable"} :
        /\ step' = [step EXCEPT !.script = o, !.err = (AfterStat(o) = "log")]
        /\ wpc' = AfterStat(o)
    /\ UNCHANGED <<worker, cur, attempt, jobs, spawned, stuck, sendq, dequeued,
                   running, buildLog, ws, h, last, resp>>

\* lines 95-111: buildCmd.Run(), sh spectacle.sh in buildPath.  sh runs the
\* script only if it can read it; exit "nonzero" stands for every error of
\* Run, "unread" for a shell that could not open the script.
RunScript ==
    /\ wpc = "run"
    /\ attempt' = [attempt EXCEPT
                      !.procs = Append(@, Process(buildCmd(jobs[cur])))]
    /\ \/ /\ step.script = "present"
          /\ \E x \in {"zero", "nonzero"} :
                step' = [step EXCEPT !.exit = x, !.err = (x # "zero")]
       \/ /\ step.script # "present"
          /\ step' = [step EXCEPT !.exit = "unread", !.err = TRUE]
    /\ wpc' = "log"
    /\ UNCHANGED <<worker, cur, jobs, spawned, stuck, sendq, dequeued,
                   running, buildLog, ws, h, last, resp>>

\* lines 116-119
StatusOf(st) == IF st.err THEN "FAIL" ELSE "OK"

\* a worker that returns from jobRunner after a failed job
AfterLogStopOnFail(st) == IF st.err THEN "exit" ELSE "recv"

\* where jobRunner goes after the final log line: back to line 54
AfterLog(st) == "recv"

\* a worker that sends a failed job to the channel again
QueueRetryingFailed(q, id, st) == IF st.err THEN Append(q, id) ELSE q

\* lines 116-121: the channel's queue after the final log line of job id:
\* jobRunner puts nothing back, whatever the job returned
QueueAfterLog(q, id, st) == q

\* lines 116-121: the final log line, then the next turn of the loop
LogResult ==
    /\ wpc = "log"
    /\ buildLog' = Append(buildLog, [job |-> cur, status |-> StatusOf(step)])
    /\ running' = running \ {cur}
    /\ cur' = 0
    /\ wpc' = AfterLog(step)
    /\ sendq' = QueueAfterLog(sendq, cur, step)
    /\ attempt' = NoAttempt
    /\ UNCHANGED <<worker, step, jobs, spawned, stuck, dequeued,
                   ws, h, last, resp>>

Next ==
    \/ \E req \in CoreRequests : ServeHTTP(req)
    \/ \E id \in 0..MaxJobs : WriteHeader(id)
    \/ \E id \in 1..MaxJobs : Send(id)
    \/ MakeChannel
    \/ Receive
    \/ Prepare
    \/ Clone
    \/ StatScript
    \/ RunScript
    \/ LogResult

Spec == Init /\ [][Next]_vars

(***************************************************************************)
(* The same program under a fair scheduler in which every build ends: a    *)
(* goroutine that can take its next step takes it.  Requests come when the *)
(* senders please, so ServeHTTP is under no fairness condition.            *)
(***************************************************************************)
SpecFair ==
    /\ Init
    /\ [][Next]_vars
    /\ \A id \in 1..MaxJobs : WF_vars(Send(id))
    /\ \A id \in 0..MaxJobs : WF_vars(WriteHeader(id))
    /\ WF_vars(MakeChannel)
    /\ WF_vars(Receive)
    /\ WF_vars(Prepare)
    /\ WF_vars(Clone)
    /\ WF_vars(StatScript)
    /\ WF_vars(RunScript)
    /\ WF_vars(LogResult)

(***************************************************************************)
(* One request out of all Requests, followed through the system.           *)
(***************************************************************************)
InitRoute ==
    /\ worker = "nil"
    /\ wpc = "start"
    /\ cur = 0
    /\ step = NoStep
    /\ attempt = NoAttempt
    /\ jobs = <<>>
    /\ spawned = {}
    /\ stuck = {}
    /\ sendq = <<>>
    /\ dequeued = <<>>
    /\ running = {}
    /\ buildLog = <<>>
    /\ ws = [d \in TmpDirs |-> NoTree]
    /\ h = [j \in 0..MaxJobs |-> 0]
    /\ last \in {[NoLast EXCEPT !.req = r] : r \in Requests}
    /\ resp = NoResp

\* HookHandler.ServeHTTP for the request of InitRoute, with what it did
ServePending ==
    /\ ~last.served
    /\ Handle(last.req, Routed[last.req],
              IF Routed[last.req].queue THEN Len(jobs) + 1 ELSE 0)
    /\ last' = [last EXCEPT !.served = TRUE,
                            !.id = IF Routed[last.req].queue
                                   THEN Len(jobs) + 1 ELSE 0,
                            !.v = Routed[last.req]]

NextRoute ==
    \/ ServePending
    \/ \E id \in 0..MaxJobs : WriteHeader(id)
    \/ \E id \in 1..MaxJobs : Send(id)
    \/ MakeChannel
    \/ Receive
    \/ Prepare
    \/ Clone
    \/ StatScript
    \/ RunScript
    \/ LogResult

SpecRoute == InitRoute /\ [][NextRoute]_vars

(***************************************************************************)
(* The synchronous handler of src/main.go: no queue and no worker, a       *)
(* verified matching push is cloned and checked out by the handler itself  *)
(* before it answers.  The repository is looked up by the payload's        *)
(* repository.name.  Of the variables it uses ws (the checkout             *)
(* directories), buildLog (one entry per git.Clone), attempt.dirty, last   *)
(* and resp.                                                               *)
(***************************************************************************)
StatusNoContent == 204
StatusInternalServerError == 500

ShortA == <<"a">>
ShortB == <<"b">>
ShortC == <<"c">>

SyncRepos ==
    << [Name |-> ShortA, Secret |-> "s1", Branch |-> <<"m">>],
       [Name |-> ShortB, Secret |-> "s2", Branch |-> <<"h">>] >>

\* the repository.name that goes with a repository.full_name
ShortName(fullName) ==
    IF fullName = RepoA THEN ShortA
    ELSE IF fullName = RepoB THEN ShortB ELSE ShortC

\* json.Unmarshal(raw, &payload), with the field main.go reads
UnmarshalSync(raw) ==
    IF raw.wellformed
    THEN [err |-> FALSE,
          payload |-> [Ref |-> raw.ref, Repository |-> [Name |-> raw.name]]]
    ELSE [err |-> TRUE,
          payload |-> [Ref |-> <<>>, Repository |-> [Name |-> <<>>]]]

\* tmpDir := fmt.Sprintf("/tmp/spectacle-%s", repo.Name)
SyncTmpDir(name) == <<"/tmp/spectacle-">> \o name
SyncTmpDirs == {SyncTmpDir(SyncRepos[k].Name) : k \in 1..Len(SyncRepos)}

\* os.Remove(tmpDir): removes a file or an empty directory; on a directory
\* that holds files it fails and leaves it as it is
Remove(tree) == IF tree.exists /\ tree.left = {} THEN NoTree ELSE tree

\* src/main.go lines 116-176: status is the status of an early return, 0
\* when the handler goes on; clone says that it goes on to the checkout
RouteSync(req) ==
    LET pre == Preconditions(req)
        no == [clone |-> FALSE, repo |-> 0, verify |-> "none"]
    IN  IF pre # 0 THEN no @@ [status |-> pre]
        ELSE
        LET u == UnmarshalSync(req.body)
        IN  IF u.err THEN no @@ [status |-> StatusBadRequest]
            ELSE
            LET k == FindConfig(SyncRepos, u.payload.Repository.Name)
            IN  IF k = 0 THEN no @@ [status |-> StatusBadRequest]
                ELSE
                LET repo == SyncRepos[k]
                    v == VerifySignature(repo.Secret, req.body, req.sig)
                IN  IF v = "panic"
                    THEN [clone |-> FALSE, repo |-> k, verify |-> v,
                          status |-> 0]
                    ELSE IF v = "fail"
                    THEN [clone |-> FALSE, repo |-> k, verify |-> v,
                          status |-> StatusForbidden]
                    ELSE [clone |-> req.event = "push"
                                    /\ HasSuffix(u.payload.Ref, repo.Branch),
                          repo |-> k, verify |-> v, status |-> 0]

\* a request as GitHub sends it for repository fullName
SyncPush(fullName, ref, secret, signedRef, event) ==
    [path |-> "/hook", method |-> "POST", ctype |-> "application/json",
     sig |-> Signature(secret, [wellformed |-> TRUE, ref |-> signedRef,
                                full_name |-> fullName]),
     event |-> event,
     body |-> [wellformed |-> TRUE, ref |-> ref, full_name |-> fullName,
               name |-> ShortName(fullName)]]

SyncRequests ==
    { SyncPush(RepoA, RefSeq[1], "s1", RefSeq[1], "push"),
      SyncPush(RepoB, RefSeq[2], "s2", RefSeq[2], "push"),
      SyncPush(RepoA, RefSeq[2], "s1", RefSeq[2], "push"),
      SyncPush(RepoA, RefSeq[1], "s1", RefSeq[1], "watch"),
      SyncPush(RepoB, RefSeq[2], "s2", RefSeq[2], "ping"),
      SyncPush(RepoA, RefSeq[1], "s1", RefSeq[2], "push"),
      SyncPush(RepoC, RefSeq[1], "s1", RefSeq[1], "push"),
      SyncPush(RepoB, RefSeq[1], "s2", RefSeq[1], "push"),
      SyncPush(RepoB, RefSeq[2], "s1", RefSeq[2], "push"),
      [SyncPush(RepoA, RefSeq[1], "s1", RefSeq[1], "push")
            EXCEPT !.method = "GET"],
      [SyncPush(RepoA, RefSeq[1], "s1", RefSeq[1], "push")
            EXCEPT !.body.wellformed = FALSE] }

InitSync ==
    /\ worker = "nil"
    /\ wpc = "start"
    /\ cur = 0
    /\ step = NoStep
    /\ attempt = NoAttempt
    /\ jobs = <<>>
    /\ spawned = {}
    /\ stuck = {}
    /\ sendq = <<>>
    /\ dequeued = <<>>
    /\ running = {}
    /\ buildLog = <<>>
    /\ ws = [d \in SyncTmpDirs |-> NoTree]
    /\ h = [j \in 0..MaxJobs |-> 0]
    /\ last = NoLast
    /\ resp = NoResp

\* src/main.go lines 178-191: os.Remove, whose error is dropped, then
\* git.Clone, which refuses a path that holds files and can fail for other
\* reasons, then checkoutBranch.  n numbers the clone.
Checkout(req, v, n) ==
    LET d == SyncTmpDir(SyncRepos[v.repo].Name)
        tree == Remove(ws[d])
    IN  /\ attempt' = [attempt EXCEPT !.dirty = tree.left # {}]
        /\ \/ /\ tree.left # {}
              /\ ws' = [ws EXCEPT ![d] = tree]
              /\ buildLog' = Append(buildLog, [job |-> n, status |-> "FAIL"])
              /\ resp' = [status |-> StatusInternalServerError, job |-> n,
                          finished |-> TRUE]
           \/ /\ tree.left = {}
              /\ \/ /\ ws' = [ws EXCEPT ![d] = tree]
                    /\ buildLog' = Append(buildLog,
                                          [job |-> n, status |-> "FAIL"])
                    /\ resp' = [status |-> StatusInternalServerError,
                                job |-> n, finished |-> TRUE]
                 \/ /\ ws' = [ws EXCEPT ![d] = [exists |-> TRUE,
                                                 left |-> {n}]]
                    /\ buildLog' = Append(buildLog,
                                          [job |-> n, status |-> "OK"])
                    /\ \E co \in {StatusNoContent,
                                   StatusInternalServerError} :
                            resp' = [status |-> co, job |-> n,
                                     finished |-> TRUE]

\* src/main.go lines 108-198: HookHandler.ServeHTTP for request req
ServeHTTPSync(req) ==
    LET v == RouteSync(req)
        n == Len(buildLog) + 1
    IN  /\ last' = [req |-> req, served |-> TRUE,
                    id |-> IF v.clone THEN n ELSE 0, v |-> v]
        /\ IF v.clone
           THEN /\ n <= MaxJobs
                /\ Checkout(req, v, n)
           ELSE /\ resp' = [status |-> IF v.status # 0 THEN v.status
                                        ELSE IF v.verify = "panic" THEN 0
                                        ELSE StatusNoContent,
                            job |-> 0, finished |-> TRUE]
                /\ UNCHANGED <<ws, buildLog, attempt>>
        /\ UNCHANGED <<worker, wpc, cur, step, jobs, spawned, stuck, sendq,
                       dequeued, running, h>>

NextSync == \E req \in SyncRequests : ServeHTTPSync(req)

SpecSync == InitSync /\ [][NextSync]_vars


(***************************************************************************)
(* Notions the claims are stated in.                                       *)
(***************************************************************************)
\* t is a suffix of s
EndsWith(s, t) == \E k \in 0..Len(s) : SubSeq(s, k + 1, Len(s)) = t

Configured == {Repos[k] : k \in 1..Len(Repos)}

\* the request passes the checks on path, method, content type and header
PassesPreconditions(req) ==
    /\ req.path = "/hook"
    /\ req.method = "POST"
    /\ req.ctype = "application/json"
    /\ Len(req.sig) >= 45

\* the request passes the preconditions, parses and names the repo r
Names(req, r) ==
    /\ PassesPreconditions(req)
    /\ req.body.wellformed
    /\ r.Name = req.body.full_name

\* the digest part of the signature header
DigestOf(req) == SubSeq(req.sig, 6, Len(req.sig))

\* position of job id in the order of reception, 0 when not received
Position(id) ==
    IF id \in Received THEN CHOOSE k \in 1..Len(dequeued) : dequeued[k] = id ELSE 0

(***************************************************************************)
(* C1: at most one job is between its dequeue and its final OK/FAIL log    *)
(* line, whatever number of requests is in flight and of jobs is pending.  *)
(***************************************************************************)
C1_OneBuildAtATime ==
    /\ Cardinality(running) <= 1
    /\ running = IF cur = 0 THEN {} ELSE {cur}

\* a build in progress, another job waiting in the channel, a handler in flight
C1_Witness ==
    /\ Cardinality(running) = 1
    /\ wpc \in {"prepare", "clone", "stat", "run"}
    /\ sendq # <<>>
    /\ InFlight > 0

(***************************************************************************)
(* C2: a request that passes the preconditions and names a registered      *)
(* repository, and whose header digest differs from the HMAC of the raw    *)
(* body under that repository's secret, is answered 403 and queues no job. *)
(***************************************************************************)
C2_SignatureGate ==
    \A r \in Configured :
        ( /\ last.served
          /\ Names(last.req, r)
          /\ DigestOf(last.req) # EncodeToString(Sum(r.Secret, last.req.body)) )
        => /\ last.v.status = 403
           /\ jobs = <<>>

(***************************************************************************)
(* C3: a request that names a configured repository, carries the correct   *)
(* signature of the raw body, is a push and has a ref ending with the      *)
(* configured branch queues exactly one BuildJob with the repository's     *)
(* Name, clone Url and configured Branch, and is answered 202.             *)
(***************************************************************************)
C3_ValidPush(req, r) ==
    /\ Names(req, r)
    /\ DigestOf(req) = EncodeToString(Sum(r.Secret, req.body))
    /\ req.event = "push"
    /\ EndsWith(req.body.ref, r.Branch)

C3_OneJobQueued(r) ==
    /\ Len(jobs) = 1
    /\ jobs[1].Name = r.Name
    /\ jobs[1].Url = <<"https://github.com/">> \o r.Name
    /\ jobs[1].Branch = r.Branch
    /\ last.v.status = 0
    /\ \/ h[1] = 1 /\ resp.status = 0
       \/ h[1] = 0 /\ resp.status = 202 /\ resp.job = 1

\* C3 as stated: a valid matching push queues one BuildJob with the right
\* fields and its 202 is written before the build has finished
C3_RespondsBeforeBuildEnds ==
    \A r \in Configured :
        (last.served /\ C3_ValidPush(last.req, r))
        => /\ C3_OneJobQueued(r)
           /\ resp.status = 202 => ~resp.finished

\* C3 as amended: a valid matching push queues one BuildJob with the right
\* fields and its 202 is written without waiting for the build
C3_RespondsWithoutWaiting ==
    \A r \in Configured :
        (last.served /\ C3_ValidPush(last.req, r))
        => /\ C3_OneJobQueued(r)
           /\ h[1] = 1 => ENABLED WriteHeader(1)

\* a valid push answered 202 while its job is still being built
C3_Witness ==
    \E r \in Configured :
        /\ last.served
        /\ C3_ValidPush(last.req, r)
        /\ resp.status = 202
        /\ ~resp.finished
        /\ cur = 1

(***************************************************************************)
(* C4: jobs of the same repository are received by jobRunner in the order  *)
(* of their queueWork calls.                                               *)
(***************************************************************************)
C4_FifoByCall ==
    \A a, b \in 1..Len(jobs) :
        (a < b /\ jobs[a].Name = jobs[b].Name /\ b \in Received)
        => (a \in Received /\ Position(a) < Position(b))

(***************************************************************************)
(* C5: a request that passes the preconditions and parses, and names no    *)
(* configured repository, is answered 400 whatever its signature header    *)
(* holds; no signature is verified for it and no job is queued.            *)
(***************************************************************************)
C5_UnknownRepository ==
    ( /\ last.served
      /\ PassesPreconditions(last.req)
      /\ last.req.body.wellformed
      /\ \A r \in Configured : r.Name # last.req.body.full_name )
    => /\ last.v.status = 400
       /\ last.v.verify = "none"
       /\ jobs = <<>>
       /\ InFlight = 0

\* an unknown repository with a header that hex.Decode would overrun on
C5_Witness ==
    /\ last.served
    /\ PassesPreconditions(last.req)
    /\ last.req.body.wellformed
    /\ last.req.body.full_name = RepoC
    /\ Len(last.req.sig) > 45
    /\ last.v.status = 400

(***************************************************************************)
(* C6: a BuildJob is queued only by a push whose ref ends with the         *)
(* configured branch of the repository it names; a verified watch, a       *)
(* verified event of another kind and a verified push with another ref     *)
(* queue none.                                                             *)
(***************************************************************************)
C6_OnlyMatchingPush ==
    (last.served /\ (jobs # <<>> \/ spawned # {} \/ last.v.queue))
    => /\ last.req.event = "push"
       /\ last.v.verify = "pass"
       /\ \E r \in Configured :
            /\ Names(last.req, r)
            /\ EndsWith(last.req.body.ref, r.Branch)

\* verified, a push, the ref does not end with the branch: answered, no job
C6_Witness ==
    /\ last.served
    /\ last.v.verify = "pass"
    /\ last.req.event = "push"
    /\ \E r \in Configured :
        Names(last.req, r) /\ ~EndsWith(last.req.body.ref, r.Branch)
    /\ resp.status = 202
    /\ jobs = <<>>

(***************************************************************************)
(* C7: every request that passes signature verification is answered 202,   *)
(* whatever its event kind and ref; none is answered with an error status. *)
(***************************************************************************)
C7_VerifiedIsAccepted ==
    (last.served /\ last.v.verify = "pass")
    => /\ last.v.status = 0
       /\ \/ InFlight = 1 /\ resp.status = 0
          \/ InFlight = 0 /\ resp.status = 202

\* a verified push with a ref of another branch, answered 202
C7_Witness ==
    /\ last.served
    /\ last.v.verify = "pass"
    /\ last.v.outcome = "ignored ref"
    /\ resp.status = 202

(***************************************************************************)
(* C8: the first failing precondition, in the order path, method, content  *)
(* type, header length, alone decides the response (404, 405, 400, 400),   *)
(* and then nothing is parsed, looked up, verified or queued.              *)
(***************************************************************************)
C8_PreconditionOrder ==
    last.served =>
        LET req == last.req
            expected ==
                IF req.path # "/hook" THEN 404
                ELSE IF req.method # "POST" THEN 405
                ELSE IF req.ctype # "application/json" THEN 400
                ELSE IF Len(req.sig) < 45 THEN 400
                ELSE 0
        IN  expected # 0 =>
                /\ last.v.status = expected
                /\ ~last.v.parsed
                /\ ~last.v.lookedUp
                /\ last.v.verify = "none"
                /\ jobs = <<>>
                /\ InFlight = 0

\* wrong path and wrong method and short header: the path decides
C8_Witness ==
    /\ last.served
    /\ last.req.path # "/hook"
    /\ last.req.method # "POST"
    /\ Len(last.req.sig) < 45
    /\ last.v.status = 404

(***************************************************************************)
(* C9: a failed job gets one FAIL line and the worker goes back to wait    *)
(* for the next job; a job is logged OK only when its clone succeeded, the *)
(* script was present and the script exited with code 0.                   *)
(***************************************************************************)
C9_WorkerSurvivesFailure ==
    /\ wpc \in {"start", "recv", "prepare", "clone", "stat", "run", "log"}
    /\ (cur = 0 /\ wpc # "start") => wpc = "recv"
    /\ (wpc = "recv" /\ sendq # <<>>) => ENABLED Receive
    /\ \A k, l \in 1..Len(buildLog) :
            buildLog[k].job = buildLog[l].job => k = l
    /\ Len(buildLog) + Cardinality(running) = Len(dequeued)
    /\ (cur = 0 /\ buildLog # <<>>) =>
            LET e == buildLog[Len(buildLog)]
                good == /\ step.remove # "err"
                        /\ step.clone = "ok"
                        /\ step.script = "present"
                        /\ step.exit = "zero"
            IN  /\ e.status \in {"OK", "FAIL"}
                /\ e.status = "OK" <=> good

\* a failed job followed by a job that was run and logged OK
C9_Witness ==
    /\ Len(buildLog) = 2
    /\ buildLog[1].status = "FAIL"
    /\ buildLog[2].status = "OK"

(***************************************************************************)
(* C10: a handler that queued a job writes its response without waiting    *)
(* for jobRunner to receive the job or to end a build, whatever is pending.*)
(***************************************************************************)
C10_ResponseNeverWaits ==
    \A id \in 0..MaxJobs : h[id] > 0 => ENABLED WriteHeader(id)

\* a response written for a job not yet received, during another build
C10_Witness ==
    /\ resp.status = 202
    /\ resp.job # 0
    /\ resp.job \notin Received
    /\ cur # 0
    /\ cur # resp.job

(***************************************************************************)
(* Helpers of the claims about one job of jobRunner.                       *)
(***************************************************************************)
Range(f) == {f[k] : k \in DOMAIN f}

\* the tmpDir of job id
DirOf(id) == TmpDir(jobs[id].Name)

\* jobs that have their final log line
Logged == {buildLog[k].job : k \in 1..Len(buildLog)}

(***************************************************************************)
(* C11: the clone of a job starts on a workspace that holds nothing left   *)
(* by an earlier job, the job before it for the same repository included,  *)
(* whether that one was logged OK or FAIL: what a job finds at tmpDir is   *)
(* removed before its clone, or the job fails without cloning.  While the  *)
(* job goes on, the only files at tmpDir are its own.                      *)
(***************************************************************************)
C11_FreshWorkspace ==
    /\ ~attempt.dirty
    /\ wpc = "clone" => ws[DirOf(cur)].left = {}
    /\ (cur # 0 /\ attempt.procs # <<>>) =>
            ws[DirOf(cur)].left \subseteq {cur}
    /\ (cur # 0 /\ step.remove = "err") => attempt.procs = <<>>

\* the second of two jobs for one repository has cloned after removing the
\* tree that the first, logged FAIL, had left at tmpDir
C11_Witness ==
    /\ cur = 2
    /\ jobs[1].Name = jobs[2].Name
    /\ buildLog = <<[job |-> 1, status |-> "FAIL"]>>
    /\ step.remove = "ok"
    /\ step.clone = "ok"
    /\ ws[DirOf(2)] = [exists |-> TRUE, left |-> {2}]

(***************************************************************************)
(* C12: a job is received at most once; a job that has its final log line, *)
(* OK or FAIL, is never again queued, blocked in a send or being run; and  *)
(* after a FAIL the worker can receive the next queued job.                *)
(***************************************************************************)
C12_ConsumedAtMostOnce ==
    /\ \A k, l \in 1..Len(dequeued) : dequeued[k] = dequeued[l] => k = l
    /\ \A k, l \in 1..Len(sendq) : sendq[k] = sendq[l] => k = l
    /\ Logged \cap (Range(sendq) \cup spawned \cup stuck \cup running) = {}
    /\ Range(sendq) \cap Range(dequeued) = {}
    /\ Len(buildLog) <= Len(jobs)
    /\ (/\ cur = 0
        /\ buildLog # <<>>
        /\ buildLog[Len(buildLog)].status = "FAIL"
        /\ sendq # <<>>) => ENABLED Receive

\* a failed job for one repository, then a job for another one run to its end
C12_Witness ==
    /\ Len(buildLog) = 2
    /\ buildLog[1].status = "FAIL"
    /\ jobs[buildLog[1].job].Name # jobs[buildLog[2].job].Name
    /\ sendq = <<>>
    /\ cur = 0

(***************************************************************************)
(* C13: when removing the old tree, creating the directory tree or         *)
(* assigning ownership fails, the job starts no subprocess and ends FAIL.  *)
(***************************************************************************)
C13_PreparationFailureIsFatal ==
    (cur # 0 /\ (step.remove = "err" \/ attempt.mkdir = "err"
                 \/ attempt.chown = "err")) =>
        /\ attempt.procs = <<>>
        /\ wpc \in {"log"}
        /\ StatusOf(step) = "FAIL"

(***************************************************************************)
(* C14: every subprocess the worker starts, git as well as sh, runs with   *)
(* an environment built for it, HOME, GOPATH inside the workspace and a    *)
(* restricted PATH, and takes nothing from the environment of the service. *)
(***************************************************************************)
C14_MinimalEnvironment ==
    \A k \in 1..Len(attempt.procs) :
        LET p == attempt.procs[k]
        IN  /\ ~p.inherits
            /\ Range(p.env) \cap Range(Environ) = {}
            /\ Len(p.env) = 3
            /\ p.env[2] = <<"GOPATH=">> \o DirOf(cur)

(***************************************************************************)
(* C15: every subprocess of a job runs as uid 1001 and gid 1001, never as  *)
(* the service; a clone or a script that has returned was such a process.  *)
(***************************************************************************)
C15_RestrictedIdentity ==
    /\ \A k \in 1..Len(attempt.procs) :
            /\ attempt.procs[k].identity = [Uid |-> 1001, Gid |-> 1001]
            /\ attempt.procs[k].identity # ServiceIdentity
    /\ (cur # 0 /\ step.clone # "none") =>
            (Len(attempt.procs) >= 1 /\ attempt.procs[1].path = "git")
    /\ (cur # 0 /\ step.exit # "none") =>
            (Len(attempt.procs) = 2 /\ attempt.procs[2].path = "sh")

\* git and sh have both been started for one job
C15_Witness ==
    /\ Len(attempt.procs) = 2
    /\ attempt.procs[1].path = "git"
    /\ attempt.procs[2].path = "sh"
    /\ attempt.procs[2].identity.Uid = 1001
    /\ step.exit = "zero"

C18_WorkspaceDestroyedAfterUse ==
    (wpc = "recv" /\ cur = 0) =>
        \A id \in Logged : ~ws[DirOf(id)].exists

(***************************************************************************)
(* C17: a request that passes the preconditions and names a registered     *)
(* repository, and whose header digest is not 40 hexadecimal digits, is    *)
(* answered 403 by a verification that fails; no job is queued and the     *)
(* handler does not end in any other way.                                  *)
(***************************************************************************)
Malformed(digest) ==
    \/ Len(digest) # 2 * MacLen
    \/ \E i \in 1..Len(digest) : fromHexChar(digest[i]) = 255

C17_MalformedDigestRejected ==
    \A r \in Configured :
        ( /\ last.served
          /\ Names(last.req, r)
          /\ Malformed(DigestOf(last.req)) )
        => /\ last.v.verify = "fail"
           /\ last.v.status = 403
           /\ ~last.v.queue
           /\ jobs = <<>>

(***************************************************************************)
(* C19: under a fair scheduler and with builds that end, every job handed  *)
(* to queueWork is in the end received by jobRunner and run to its final   *)
(* log line, also when queueWork was called before jobRunner made the      *)
(* channel.                                                                *)
(***************************************************************************)
C19_EveryJobIsRun ==
    \A id \in 1..MaxJobs : (Len(jobs) >= id) ~> (id \in Logged)

(***************************************************************************)
(* C20: in the synchronous handler every verified matching push clones     *)
(* into a path that holds nothing: what an earlier push for the same       *)
(* repository left there is gone when git.Clone starts, so a second push   *)
(* finds what the first one found.                                         *)
(***************************************************************************)
C20_FreshCheckout ==
    (last.served /\ last.v.clone) =>
        /\ ~attempt.dirty
        /\ ws[SyncTmpDir(SyncRepos[last.v.repo].Name)].left \subseteq {last.id}

=============================================================================
